---- MODULE Spec2Model ----
(***************************************************************************)
(* scripts/archive/organize_docs.py: a linear script that creates seven    *)
(* folders under docs_dir, moves the entries of docs_dir that match eight  *)
(* glob patterns into archive/{fixes,analysis,old-reviews}, moves seven    *)
(* literally named entries into archive/old-reviews and prints a summary.  *)
(* The state is the part of the file system the script reads and writes,   *)
(* the script's variables and its console output.                          *)
(***************************************************************************)
EXTENDS Integers, Sequences, FiniteSets, TLC

(* ------------------------------ bounds --------------------------------- *)
\* entries present in docs_dir when the script is first started
MaxEntries == 2
\* invocations of the script, one after the other
MaxRuns == 2

(* --------------------------- names and paths --------------------------- *)
FIXES == "archive/fixes"
ANALYSIS == "archive/analysis"
OLD_REVIEWS == "archive/old-reviews"
ARCHIVE == "archive"

\* the three mkdir(parents=True) calls, below archive_dir
ArchiveFolders == {FIXES, ANALYSIS, OLD_REVIEWS}

\* the seven mkdir calls in program order
MkdirOrder ==
  << FIXES, ANALYSIS, OLD_REVIEWS,
     "integrations", "development", "deployment", "getting-started" >>

Folders == {MkdirOrder[i] : i \in 1..Len(MkdirOrder)}

Paths == Folders \cup {ARCHIVE}

\* the three pattern loops, flattened in program order
PatternRules ==
  << [pattern |-> <<"*", "_", "F", "I", "X", ".", "m", "d">>, dest |-> FIXES],
     [pattern |-> <<"*", "_", "F", "I", "X", "E", "S", ".", "m", "d">>, dest |-> FIXES],
     [pattern |-> <<"*", "Q", "U", "I", "C", "K", "_", "F", "I", "X", ".", "m", "d">>,
      dest |-> FIXES],
     [pattern |-> <<"*", "_", "A", "N", "A", "L", "Y", "S", "I", "S", ".", "m", "d">>,
      dest |-> ANALYSIS],
     [pattern |-> <<"*", "_", "I", "S", "S", "U", "E", ".", "m", "d">>, dest |-> ANALYSIS],
     [pattern |-> <<"P", "R", "O", "J", "E", "C", "T", "_", "R", "E", "V", "I", "E", "W",
                    "*", ".", "m", "d">>, dest |-> OLD_REVIEWS],
     [pattern |-> <<"I", "R", "I", "S", "*", ".", "m", "d">>, dest |-> OLD_REVIEWS],
     [pattern |-> <<"*", "_", "I", "M", "P", "R", "O", "V", "E", "M", "E", "N", "T", "S",
                    "_", "I", "M", "P", "L", "E", "M", "E", "N", "T", "E", "D",
                    ".", "m", "d">>, dest |-> OLD_REVIEWS] >>

old_files ==
  << "VERIFICATION_SUMMARY.md", "SYSTEM_STATUS.md", "OFFERS_DELETION_VERIFICATION.md",
     "NEXT_STEPS.md", "PROJECT_CHECKLIST.md", "COVERAGE_IMPROVEMENT_PLAN.md",
     "ROADMAP_TESTING.md" >>

\* the entry names the model lets docs_dir hold, with their spelling
Spelling ==
  ("A_FIX.md" :> <<"A", "_", "F", "I", "X", ".", "m", "d">>) @@
  ("PROJECT_REVIEW_FIX.md" :>
     <<"P", "R", "O", "J", "E", "C", "T", "_", "R", "E", "V", "I", "E", "W",
       "_", "F", "I", "X", ".", "m", "d">>) @@
  ("B_ISSUE.md" :> <<"B", "_", "I", "S", "S", "U", "E", ".", "m", "d">>) @@
  ("IRIS.md" :> <<"I", "R", "I", "S", ".", "m", "d">>) @@
  ("NEXT_STEPS.md" :>
     <<"N", "E", "X", "T", "_", "S", "T", "E", "P", "S", ".", "m", "d">>) @@
  ("README.md" :> <<"R", "E", "A", "D", "M", "E", ".", "m", "d">>)

Names == DOMAIN Spelling

(* ------------------------------ entries -------------------------------- *)
\* an entry is a regular file or a directory; org tells the entry that was
\* in docs_dir at the start ("src") from one already at a destination ("dst")
None == [kind |-> "none", org |-> "none"]

\* <folder>/<name> and, when that is a directory, <folder>/<name>/<name>
EmptySlot == [top |-> None, inner |-> None]

VARIABLES
  dirs,         \* Paths -> "absent" | "dir" | "file"
  src,          \* Names -> entry directly under docs_dir
  dst,          \* Folders -> Names -> slot
  pc,           \* "mkdir" | "glob" | "iter" | "literal" | "report" | "done" |
                \* "mkdir_failed" | "move_failed"
  idx,          \* position in MkdirOrder, PatternRules or old_files
  todo,         \* names docs_dir.glob(pattern) has still to yield
  moved_count,
  log,          \* the 'Moved <name> to <dest>/' lines of this run
  summary,      \* the value the summary line printed, or -1
  run,          \* number of this invocation
  denied,       \* folders the environment refuses to create (permission)
  moves,        \* Names -> completed moves of that entry, over all runs
  src0,         \* docs_dir when the script was first started
  dst0,         \* the destinations when the script was first started
  prev          \* how the previous invocation ended, and the state this one started in

vars ==
  << dirs, src, dst, pc, idx, todo, moved_count, log, summary, run, denied,
     moves, src0, dst0, prev >>

(* ----------------------------- pure parts ------------------------------ *)
RECURSIVE GlobMatch(_, _)
\* fnmatch of one path component: "*" stands for any run of characters
GlobMatch(pat, s) ==
  IF pat = <<>> THEN s = <<>>
  ELSE IF Head(pat) = "*"
       THEN GlobMatch(Tail(pat), s) \/ (s # <<>> /\ GlobMatch(pat, Tail(s)))
       ELSE s # <<>> /\ Head(s) = Head(pat) /\ GlobMatch(Tail(pat), Tail(s))

\* for every name, the patterns that match it
Matches ==
  [n \in Names |->
     {p \in 1..Len(PatternRules) : GlobMatch(PatternRules[p].pattern, Spelling[n])}]

\* variant: the pattern is not applied, every entry is listed
Glob_All(p, s) == {n \in Names : s[n] # None}

\* docs_dir.glob(pattern): the names of the entries that match, of any kind
Glob(p, s) == {n \in Names : s[n] # None /\ p \in Matches[n]}

\* variant: the directory test never answers yes
is_dir_Never(e) == FALSE

\* file.is_dir()
is_dir(e) == e.kind = "dir"

\* variant: the existence test answers yes for regular files only
exists_FileOnly(name, s) == name \in Names /\ s[name].kind = "file"

\* file_path.exists()
exists(name, s) == name \in Names /\ s[name] # None

\* variant: exist_ok accepts whatever is at the path
MkdirOne_AnyExisting(state) ==
  [ok |-> TRUE, state |-> IF state = "absent" THEN "dir" ELSE state]

\* Path.mkdir(exist_ok=True) on a path whose parent is a directory
MkdirOne(state) ==
  IF state = "file" THEN [ok |-> FALSE, state |-> state] ELSE [ok |-> TRUE, state |-> "dir"]

\* the mkdir call of folder f: parents=True creates archive_dir first
Mkdir(f, d) ==
  IF f \in ArchiveFolders
  THEN LET a == MkdirOne(d[ARCHIVE])
       IN  IF ~a.ok THEN [ok |-> FALSE, dirs |-> d]
           ELSE LET r == MkdirOne(d[f])
                IN  [ok |-> r.ok,
                     dirs |-> IF r.ok THEN [d EXCEPT ![ARCHIVE] = "dir", ![f] = "dir"]
                              ELSE [d EXCEPT ![ARCHIVE] = "dir"]]
  ELSE LET r == MkdirOne(d[f])
       IN  [ok |-> r.ok, dirs |-> [d EXCEPT ![f] = r.state]]

\* shutil.move(src, dst) of entry e onto the slot at dst
ShutilMove(e, slot) ==
  IF slot.top.kind = "dir"
  THEN IF slot.inner # None
       THEN [ok |-> FALSE, slot |-> slot]
       ELSE [ok |-> TRUE, slot |-> [slot EXCEPT !.inner = e]]
  ELSE IF slot.top.kind = "file" /\ e.kind = "dir"
       THEN [ok |-> FALSE, slot |-> slot]
       ELSE [ok |-> TRUE, slot |-> [top |-> e, inner |-> None]]

\* variant: the entry is copied, the source path keeps it
Remove_Copy(s, n) == s

\* the source path no longer holds the entry after a move
Remove(s, n) == [s EXCEPT ![n] = None]

\* variant: every destination is built from archive/fixes
Place_Fixes(d, f, n, slot) == [d EXCEPT ![FIXES][n] = slot]

\* dest = archive_dir / <folder> / <name>
Place(d, f, n, slot) == [d EXCEPT ![f][n] = slot]

(* ------------------------------ initial -------------------------------- *)
\* the archive sub-folders can only be present below a directory archive_dir
LayoutOk(d) ==
  (\E f \in ArchiveFolders : d[f] # "absent") => d[ARCHIVE] = "dir"

\* the paths that are present without being implied by another one
Present(d) ==
  {f \in Folders : d[f] # "absent"}
    \cup {a \in {ARCHIVE} : d[a] # "absent" /\ \A f \in ArchiveFolders : d[f] = "absent"}

\* the layouts a first run starts from: nothing there, or one path already
\* there, as a directory or as a file of that name
Layouts ==
  {d \in [Paths -> {"absent", "dir", "file"}] :
     LayoutOk(d) /\ \A f, g \in Present(d) : f = g}

\* the folders the environment refuses to create: none, or one of a tree
\* that is still to be created
Denials == {{}} \cup {{f} : f \in Folders}

Docs ==
  {s \in [Names -> {None, [kind |-> "file", org |-> "src"], [kind |-> "dir", org |-> "src"]}] :
     Cardinality({n \in Names : s[n] # None}) <= MaxEntries}

\* what can already lie at <folder>/<name>
PreSlots ==
  { [top |-> [kind |-> "file", org |-> "dst"], inner |-> None],
    [top |-> [kind |-> "dir", org |-> "dst"], inner |-> None],
    [top |-> [kind |-> "dir", org |-> "dst"], inner |-> [kind |-> "file", org |-> "dst"]] }

EmptyDest == [f \in Folders |-> [n \in Names |-> EmptySlot]]

\* the destinations a first run starts from: empty, or one entry already in
\* an archive folder under a name docs_dir uses
Dests(d, s) ==
  {EmptyDest} \cup
    { Place(EmptyDest, f, n, slot) :
        f \in {g \in ArchiveFolders : d[g] = "dir"},
        n \in {m \in Names : s[m] # None},
        slot \in PreSlots }

Init ==
  /\ dirs \in Layouts
  /\ src \in Docs
  /\ dst \in Dests(dirs, src)
  /\ denied \in {D \in Denials : D # {} => \A f \in Paths : dirs[f] = "absent"}
  /\ pc = "mkdir"
  /\ idx = 1
  /\ todo = {}
  /\ moved_count = 0
  /\ log = <<>>
  /\ summary = -1
  /\ run = 1
  /\ moves = [n \in Names |-> 0]
  /\ src0 = src
  /\ dst0 = dst
  /\ prev = [ended |-> "none", src |-> src, dst |-> dst, dirs |-> dirs, moves |-> moves]

(* ------------------------------ actions -------------------------------- *)
\* one of the seven mkdir calls returns; after the last, moved_count = 0
MkdirStep ==
  /\ pc = "mkdir"
  /\ MkdirOrder[idx] \notin denied \/ dirs[MkdirOrder[idx]] = "dir"
  /\ LET r == Mkdir(MkdirOrder[idx], dirs)
     IN  /\ r.ok
         /\ dirs' = r.dirs
  /\ IF idx = Len(MkdirOrder)
     THEN pc' = "glob" /\ idx' = 1 /\ moved_count' = 0
     ELSE pc' = "mkdir" /\ idx' = idx + 1 /\ moved_count' = moved_count
  /\ UNCHANGED << src, dst, todo, log, summary, run, denied, moves, src0, dst0, prev >>

\* a mkdir call raises: the path is a file, or the folder is missing and the
\* environment refuses to create it
MkdirFails ==
  /\ pc = "mkdir"
  /\ \/ ~Mkdir(MkdirOrder[idx], dirs).ok
     \/ MkdirOrder[idx] \in denied /\ dirs[MkdirOrder[idx]] # "dir"
  /\ pc' = "mkdir_failed"
  /\ UNCHANGED << dirs, src, dst, idx, todo, moved_count, log, summary, run,
                  denied, moves, src0, dst0, prev >>

\* the position after one entry of the glob was handled, rest still to come
AfterEntry(rest) ==
  IF rest # {}
  THEN pc' = "iter" /\ idx' = idx
  ELSE IF idx = Len(PatternRules)
       THEN pc' = "literal" /\ idx' = 1
       ELSE pc' = "glob" /\ idx' = idx + 1

\* for file in docs_dir.glob(pattern): the directory is listed for this pattern
GlobPattern ==
  /\ pc = "glob"
  /\ todo' = Glob(idx, src)
  /\ AfterEntry(todo')
  /\ UNCHANGED << dirs, src, dst, moved_count, log, summary, run, denied,
                  moves, src0, dst0, prev >>

\* an entry of the glob that is a directory: the body is skipped
SkipDirectory ==
  /\ pc = "iter"
  /\ \E n \in todo :
       /\ is_dir(src[n])
       /\ todo' = todo \ {n}
       /\ AfterEntry(todo')
  /\ UNCHANGED << dirs, src, dst, moved_count, log, summary, run, denied,
                  moves, src0, dst0, prev >>

\* variant: the counter is not incremented
Moved_NoCount(n, f, slot) ==
  /\ src' = Remove(src, n)
  /\ dst' = Place(dst, f, n, slot)
  /\ log' = Append(log, [name |-> n, to |-> f])
  /\ moved_count' = moved_count
  /\ moves' = [moves EXCEPT ![n] = @ + 1]

\* shutil.move returned: the line is printed and the counter incremented
Moved(n, f, slot) ==
  /\ src' = Remove(src, n)
  /\ dst' = Place(dst, f, n, slot)
  /\ log' = Append(log, [name |-> n, to |-> f])
  /\ moved_count' = moved_count + 1
  /\ moves' = [moves EXCEPT ![n] = @ + 1]

\* variant: the failed move is counted before the error ends the run
MoveRaised_Counted(n, f) ==
  /\ pc' = "move_failed"
  /\ moved_count' = moved_count + 1
  /\ UNCHANGED << dirs, src, dst, idx, todo, log, summary, run,
                  denied, moves, src0, dst0, prev >>

\* shutil.move raised, for what lies at the destination or because the
\* environment refused the operation: nothing else of the script runs
MoveRaised(n, f) ==
  /\ pc' = "move_failed"
  /\ UNCHANGED << dirs, src, dst, idx, todo, moved_count, log, summary, run,
                  denied, moves, src0, dst0, prev >>

\* an entry of the glob that is not a directory is moved to the rule's folder
MoveMatched ==
  /\ pc = "iter"
  /\ \E n \in todo :
       LET f == PatternRules[idx].dest
           r == ShutilMove(src[n], dst[f][n])
       IN  /\ ~is_dir(src[n])
           /\ r.ok
           /\ Moved(n, f, r.slot)
           /\ todo' = todo \ {n}
           /\ AfterEntry(todo')
  /\ UNCHANGED << dirs, summary, run, denied, src0, dst0, prev >>

MoveMatchedFails ==
  /\ pc = "iter"
  /\ \E n \in todo :
       /\ ~is_dir(src[n])
       /\ MoveRaised(n, PatternRules[idx].dest)

\* the position after one name of old_files
AfterLiteral ==
  IF idx = Len(old_files)
  THEN pc' = "report" /\ idx' = idx
  ELSE pc' = "literal" /\ idx' = idx + 1

\* file_path.exists(): the entry is moved to archive/old-reviews
MoveLiteral ==
  /\ pc = "literal"
  /\ exists(old_files[idx], src)
  /\ LET n == old_files[idx]
         r == ShutilMove(src[n], dst[OLD_REVIEWS][n])
     IN  /\ r.ok
         /\ Moved(n, OLD_REVIEWS, r.slot)
  /\ AfterLiteral
  /\ UNCHANGED << dirs, todo, summary, run, denied, src0, dst0, prev >>

MoveLiteralFails ==
  /\ pc = "literal"
  /\ exists(old_files[idx], src)
  /\ MoveRaised(old_files[idx], OLD_REVIEWS)

\* not file_path.exists(): nothing happens for this name
SkipLiteral ==
  /\ pc = "literal"
  /\ ~exists(old_files[idx], src)
  /\ AfterLiteral
  /\ UNCHANGED << dirs, src, dst, todo, moved_count, log, summary, run, denied,
                  moves, src0, dst0, prev >>

\* the two closing print calls
Report ==
  /\ pc = "report"
  /\ summary' = moved_count
  /\ pc' = "done"
  /\ UNCHANGED << dirs, src, dst, idx, todo, moved_count, log, run, denied,
                  moves, src0, dst0, prev >>

\* the script is started again on the directory as the last run left it
Restart ==
  /\ pc \in {"done", "mkdir_failed", "move_failed"}
  /\ run < MaxRuns
  /\ run' = run + 1
  /\ prev' = [ended |-> pc, src |-> src, dst |-> dst, dirs |-> dirs, moves |-> moves]
  /\ pc' = "mkdir"
  /\ idx' = 1
  /\ todo' = {}
  /\ moved_count' = 0
  /\ log' = <<>>
  /\ summary' = -1
  /\ UNCHANGED << dirs, src, dst, denied, moves, src0, dst0 >>

Next ==
  \/ MkdirStep
  \/ MkdirFails
  \/ GlobPattern
  \/ SkipDirectory
  \/ MoveMatched
  \/ MoveMatchedFails
  \/ MoveLiteral
  \/ MoveLiteralFails
  \/ SkipLiteral
  \/ Report
  \/ Restart

Spec == Init /\ [][Next]_vars

(* ------------------------- terms of the claims ------------------------- *)
RECURSIVE Sum(_, _)
Sum(f, S) == IF S = {} THEN 0 ELSE LET x == CHOOSE y \in S : TRUE IN f[x] + Sum(f, S \ {x})

\* moves completed since this invocation started
MovesThisRun == Sum(moves, Names) - Sum(prev.moves, Names)

Literal(n) == \E k \in 1..Len(old_files) : old_files[k] = n

Matching(n) == Matches[n]

\* the folder of the first pattern, in rule order, that matches the name
FirstDest(n) == PatternRules[CHOOSE p \in Matching(n) : \A q \in Matching(n) : p <= q].dest

Logged(n) == {i \in 1..Len(log) : log[i].name = n}

\* the entry lies at <folder>/<name> itself
At(f, n, e) == dst[f][n] = [top |-> e, inner |-> None]

PatternPhase == pc \in {"glob", "iter"}

MovePhase == pc \in {"glob", "iter", "literal", "report", "done", "move_failed"}

\* where a run without interruption leaves the entry e of name n: a folder, or "stay"
Home(n, e) ==
  IF e.kind = "file" /\ Matching(n) # {} THEN FirstDest(n)
  ELSE IF e # None /\ Literal(n) THEN OLD_REVIEWS
  ELSE "stay"

(* ------------------------------- claims -------------------------------- *)
\* C1: whenever the script is in or past the move loops, all seven destination
\* folders are directories; a mkdir call never fails on a folder that is
\* already a directory; and while the folders are being created, or after a
\* mkdir call failed, nothing has been moved, logged or counted in this run.
C1_FoldersBeforeMoves ==
  /\ MovePhase => \A f \in Folders : dirs[f] = "dir"
  /\ pc = "mkdir_failed" => dirs[MkdirOrder[idx]] # "dir"
  /\ pc \in {"mkdir", "mkdir_failed"} =>
       /\ src = prev.src /\ dst = prev.dst
       /\ log = <<>> /\ moved_count = 0 /\ MovesThisRun = 0

\* C1 witness: a first run that found archive/analysis already there and
\* archive/fixes missing has moved an entry into archive/fixes
C1_Witness ==
  /\ run = 1
  /\ prev.dirs[FIXES] = "absent" /\ prev.dirs[ANALYSIS] = "dir"
  /\ \E n \in Names : At(FIXES, n, src0[n]) /\ src0[n] # None

\* C2 as stated: after a successful first run every regular file whose name
\* matches a pattern lies at <folder of the first matching pattern>/<name>,
\* is gone from docs_dir and was moved once.
C2_MovedOnceToFirstDest ==
  (pc = "done" /\ run = 1) =>
    \A n \in Names :
      (src0[n].kind = "file" /\ Matching(n) # {}) =>
        /\ dst[FirstDest(n)][n].top = src0[n]
        /\ src[n] = None
        /\ moves[n] = 1
        /\ Cardinality(Logged(n)) = 1

\* C3: in a run that follows a completed run no call fails, nothing is moved,
\* the counter stays 0, no 'Moved' line is printed, the summary reports 0 and
\* the file system stays as the first run left it.
C3_SecondRunIdle ==
  (run > 1 /\ prev.ended = "done") =>
    /\ pc \notin {"mkdir_failed", "move_failed"}
    /\ moved_count = 0 /\ log = <<>> /\ MovesThisRun = 0
    /\ src = prev.src /\ dst = prev.dst /\ dirs = prev.dirs
    /\ pc = "done" => summary = 0

\* C3 witness: the second run ended after a first run that moved two entries
C3_Witness ==
  /\ run = 2 /\ prev.ended = "done" /\ pc = "done"
  /\ Sum(prev.moves, Names) = 2

\* C4: the counter equals the number of moves completed in this run and the
\* number of 'Moved' lines; it is 0 when the loops start; the summary is
\* printed only once every rule and name was processed, with the final value.
C4_CounterIsMovesAndLines ==
  /\ moved_count = MovesThisRun
  /\ moved_count = Len(log)
  /\ (pc = "glob" /\ idx = 1) => moved_count = 0
  /\ summary # -1 <=> pc = "done"
  /\ pc = "done" => summary = moved_count

\* C4 witness: a run printed a summary of 2
C4_Witness == pc = "done" /\ summary = 2 /\ Len(log) = 2

\* C5: up to the end of the three pattern loops, an entry of docs_dir that is
\* a directory is where it was, with no move and no 'Moved' line for it.
C5_DirectoriesStay ==
  (PatternPhase \/ (pc = "literal" /\ idx = 1)) =>
    \A n \in Names :
      prev.src[n].kind = "dir" =>
        /\ src[n] = prev.src[n]
        /\ moves[n] = prev.moves[n]
        /\ Logged(n) = {}

\* C5 witness: the pattern loops are over and a directory whose name matches
\* two patterns is still in docs_dir
C5_Witness ==
  /\ pc = "literal" /\ idx = 1
  /\ src["PROJECT_REVIEW_FIX.md"].kind = "dir"
  /\ Cardinality(Matching("PROJECT_REVIEW_FIX.md")) = 2

\* C6 as stated: once the list of literal names is through, a regular file the
\* run found under such a name lies at archive/old-reviews/<name> with one
\* log line and one count; a name that was absent left no trace.
C6_LiteralMovedOrSkipped ==
  pc \in {"report", "done"} =>
    \A k \in 1..Len(old_files) :
      LET n == old_files[k]
      IN  IF n \in Names /\ prev.src[n].kind = "file"
          THEN /\ dst[OLD_REVIEWS][n].top = prev.src[n]
               /\ src[n] = None
               /\ Cardinality(Logged(n)) = 1
               /\ moves[n] = prev.moves[n] + 1
          ELSE n \in Names /\ prev.src[n] = None =>
                 /\ Logged(n) = {}
                 /\ moves[n] = prev.moves[n]
                 /\ dst[OLD_REVIEWS][n] = prev.dst[OLD_REVIEWS][n]

\* C7: an entry whose name matches no pattern and is no literal name is never
\* touched, moved, logged or counted, and the four folders integrations,
\* development, deployment and getting-started stay empty.
C7_UnmatchedUntouched ==
  /\ \A n \in Names :
       (Matching(n) = {} /\ ~Literal(n)) =>
         /\ src[n] = src0[n]
         /\ moves[n] = 0
         /\ Logged(n) = {}
         /\ \A f \in Folders : dst[f][n] = dst0[f][n]
  /\ \A f \in Folders \ ArchiveFolders : \A n \in Names : dst[f][n] = EmptySlot

\* C7 witness: a run is through, it moved an entry and README.md is in place
C7_Witness ==
  /\ pc = "done"
  /\ src["README.md"].kind = "file"
  /\ moved_count = 1

C9_FailFast ==
  [][ /\ (pc # "move_failed" /\ pc' = "move_failed") =>
           /\ src' = src /\ dst' = dst /\ dirs' = dirs
           /\ moved_count' = moved_count /\ log' = log /\ moves' = moves
           /\ summary' = -1
      /\ pc = "move_failed" =>
           /\ pc' = "mkdir" /\ run' = run + 1
           /\ src' = src /\ dst' = dst /\ dirs' = dirs /\ moves' = moves
    ]_vars

\* C9 witness: a move raised after another entry had been moved, which is
\* still at its destination
C9_Witness ==
  /\ pc = "move_failed"
  /\ moved_count = 1
  /\ \E n \in Names : src[n] = None /\ src0[n] # None /\ At(Home(n, src0[n]), n, src0[n])
  /\ \E n \in Names : src[n] # None /\ Home(n, src[n]) # "stay"

\* C10: once the list of literal names is through, a directory the run found
\* under a literal name is gone from docs_dir and lies in archive/old-reviews
\* (under its name, or inside a directory of that name that was there), with
\* one log line and one count.
C10_LiteralDirectoryMoved ==
  pc \in {"report", "done"} =>
    \A k \in 1..Len(old_files) :
      LET n == old_files[k]
      IN  (n \in Names /\ prev.src[n].kind = "dir") =>
            /\ src[n] = None
            /\ prev.src[n] \in {dst[OLD_REVIEWS][n].top, dst[OLD_REVIEWS][n].inner}
            /\ Cardinality(Logged(n)) = 1
            /\ moves[n] = prev.moves[n] + 1

\* C10 witness: a run is through and a directory from docs_dir lies at
\* archive/old-reviews/NEXT_STEPS.md
C10_Witness ==
  /\ pc = "done"
  /\ At(OLD_REVIEWS, "NEXT_STEPS.md", [kind |-> "dir", org |-> "src"])

====
